---- MODULE Spec2Model ----
(***************************************************************************)
(* The malaria incidence disaggregation notebook                           *)
(* (src/malaria_data_disaggregation.ipynb) as a state machine: one action  *)
(* per code cell, run top to bottom.  The data frames are sequences of     *)
(* rows, a row is a function from column names to cell values, and a       *)
(* numeric cell is an exact rational or one of the IEEE specials that      *)
(* pandas produces (NaN for a missing cell and for 0/0, +-inf for x/0).    *)
(* The dashboard (src/unnamed/part_000) is a second state machine over the *)
(* same variables: one action per Dash callback.                           *)
(***************************************************************************)
EXTENDS Integers, Sequences, FiniteSets, TLC

VARIABLES pc, states_gdf, pop_df, env_df, lulc_gdf, max_rainfall,
          national_malaria_incidence, total_weight, out_shp, out_csv,
          incidence_data, year_options, state_options,
          selected_year, selected_indicator, selected_state, outcome,
          choropleth, trend, bar_chart, correlation, kpi1, kpi2, kpi3

vars == <<pc, states_gdf, pop_df, env_df, lulc_gdf, max_rainfall,
          national_malaria_incidence, total_weight, out_shp, out_csv,
          incidence_data, year_options, state_options,
          selected_year, selected_indicator, selected_state, outcome,
          choropleth, trend, bar_chart, correlation, kpi1, kpi2, kpi3>>

\* The variables of the disaggregation notebook.
notebook == <<pc, states_gdf, pop_df, env_df, lulc_gdf, max_rainfall,
              national_malaria_incidence, total_weight, out_shp, out_csv>>

\* The variables of the dashboard (src/unnamed/part_000): the table of the
\* database, the properties of the components the callbacks write, and the
\* arguments and outcome of the last invocation of update_dashboard.
dashboard == <<incidence_data, year_options, state_options,
               selected_year, selected_indicator, selected_state, outcome,
               choropleth, trend, bar_chart, correlation, kpi1, kpi2, kpi3>>

-----------------------------------------------------------------------------
(* Bounds of the model.                                                    *)

\* The largest number of LULC records the LULC shapefile holds for one state.
MaxLulcRecords == 2

-----------------------------------------------------------------------------
(* float64 cells, computed exactly: [n, d] with d > 0 and gcd(n, d) = 1 is *)
(* the number n/d; d = 0 marks the specials NaN (n = 0), +inf (n = 1) and  *)
(* -inf (n = -1).                                                          *)

Abs(i) == IF i < 0 THEN -i ELSE i

Sign(i) == IF i < 0 THEN -1 ELSE IF i = 0 THEN 0 ELSE 1

RECURSIVE GCD(_, _)
GCD(a, b) == IF b = 0 THEN a ELSE GCD(b, a % b)

NaN == [n |-> 0, d |-> 0]

Inf == [n |-> 1, d |-> 0]

NegInf == [n |-> -1, d |-> 0]

IsNaN(x) == x.d = 0 /\ x.n = 0

\* A finite number: neither NaN nor an infinity.
IsNum(x) == x.d # 0

\* The number n/d (d # 0) in lowest terms.
Frac(n, d) ==
    LET g == GCD(Abs(n), Abs(d))
    IN  [n |-> Sign(d) * (n \div g), d |-> Abs(d) \div g]

FromInt(i) == [n |-> i, d |-> 1]

Zero == FromInt(0)

One == FromInt(1)

\* The sign of a cell that is not NaN.
Sgn(x) == Sign(x.n)

Neg(x) == [n |-> -x.n, d |-> x.d]

\* x + y of float64.
Add(x, y) ==
    IF IsNaN(x) \/ IsNaN(y) THEN NaN
    ELSE IF ~IsNum(x) /\ ~IsNum(y) THEN (IF x = y THEN x ELSE NaN)
    ELSE IF ~IsNum(x) THEN x
    ELSE IF ~IsNum(y) THEN y
    ELSE Frac(x.n * y.d + y.n * x.d, x.d * y.d)

\* x - y of float64.
Sub(x, y) == Add(x, Neg(y))

\* x * y of float64.
Mul(x, y) ==
    IF IsNaN(x) \/ IsNaN(y) THEN NaN
    ELSE IF ~IsNum(x) \/ ~IsNum(y)
         THEN (IF Sgn(x) * Sgn(y) = 0 THEN NaN
               ELSE IF Sgn(x) * Sgn(y) > 0 THEN Inf ELSE NegInf)
    ELSE LET g1 == GCD(Abs(x.n), y.d)
             g2 == GCD(Abs(y.n), x.d)
         IN  Frac((x.n \div g1) * (y.n \div g2), (x.d \div g2) * (y.d \div g1))

\* x / y of a pandas Series: no exception, 0/0 is NaN and x/0 is +-inf.
Div(x, y) ==
    IF IsNaN(x) \/ IsNaN(y) THEN NaN
    ELSE IF ~IsNum(x) /\ ~IsNum(y) THEN NaN
    ELSE IF ~IsNum(x) THEN (IF Sgn(y) >= 0 THEN x ELSE Neg(x))
    ELSE IF ~IsNum(y) THEN Zero
    ELSE IF y.n = 0
         THEN (IF x.n = 0 THEN NaN ELSE IF x.n > 0 THEN Inf ELSE NegInf)
    ELSE Mul(x, Frac(y.d, y.n))

\* abs(x) of float64.
AbsV(x) == [n |-> Abs(x.n), d |-> x.d]

\* x < y of float64: false when either side is NaN.
Lt(x, y) ==
    IF IsNaN(x) \/ IsNaN(y) THEN FALSE
    ELSE IF ~IsNum(x) THEN x = NegInf /\ y # NegInf
    ELSE IF ~IsNum(y) THEN y = Inf
    ELSE x.n * y.d < y.n * x.d

\* x <= y of float64: false when either side is NaN.
Le(x, y) == ~IsNaN(x) /\ ~IsNaN(y) /\ ~Lt(y, x)

\* Series.clip(lower=lo) on one cell: NaN stays NaN.
ClipLower(x, lo) == IF Lt(x, lo) THEN lo ELSE x

\* Series.sum(): NaN cells are skipped, the empty sum is 0.
RECURSIVE SeriesSum(_)
SeriesSum(s) ==
    IF s = <<>> THEN Zero
    ELSE IF IsNaN(Head(s)) THEN SeriesSum(Tail(s))
    ELSE Add(Head(s), SeriesSum(Tail(s)))

\* Series.max(): NaN cells are skipped, NaN when no cell is left.
Max2(x, y) == IF IsNaN(x) THEN y ELSE IF IsNaN(y) \/ Lt(y, x) THEN x ELSE y

RECURSIVE SeriesMax(_)
SeriesMax(s) ==
    IF s = <<>> THEN NaN ELSE Max2(Head(s), SeriesMax(Tail(s)))

\* df[c] : the column c of a data frame.
Column(df, c) == [i \in 1..Len(df) |-> df[i][c]]

\* The frame with every row replaced by f(row).
MapRows(df, f(_)) == [i \in 1..Len(df) |-> f(df[i])]

\* row[c] = v : the row with column c added or replaced.
WithCell(row, c, v) == (c :> v) @@ row

-----------------------------------------------------------------------------
(* Step 1, the inputs.                                                     *)

\* The states a data set can name.
StateNames == {"A", "B", "C"}

\* The row order of the CSV files and of the LULC shapefile.
FileOrder == <<"A", "B", "C">>

\* The boundary geometry of a state: opaque.
Geometry(s) == <<"polygon", s>>

\* The LULC records of a state that has several: u Urban records and then
\* w Water records.
SeveralLulc ==
    { [i \in 1..(uw[1] + uw[2]) |-> IF i <= uw[1] THEN "Urban" ELSE "Water"] :
        uw \in { x \in (0..MaxLulcRecords) \X (0..MaxLulcRecords) :
                    x[1] + x[2] >= 2 /\ x[1] + x[2] <= MaxLulcRecords } }

\* What the input files can hold for one state: its population row (or
\* none), its environment row (or none) and its LULC records.
Profiles ==
    { [hasPop |-> TRUE,  pop |-> 200, hasEnv |-> TRUE,  temp |-> 23, rain |-> 50,
       lulc |-> l] : l \in SeveralLulc }
    \cup
    { [hasPop |-> TRUE,  pop |-> 100, hasEnv |-> TRUE,  temp |-> 26, rain |-> 100,
       lulc |-> <<"Forested">>],
      [hasPop |-> TRUE,  pop |-> 200, hasEnv |-> TRUE,  temp |-> 32, rain |-> 50,
       lulc |-> <<"Urban">>],
      [hasPop |-> TRUE,  pop |-> 50,  hasEnv |-> TRUE,  temp |-> 20, rain |-> 200,
       lulc |-> <<"Water">>],
      [hasPop |-> FALSE, pop |-> 0,   hasEnv |-> TRUE,  temp |-> 38, rain |-> 100,
       lulc |-> <<"Grassland">>],
      [hasPop |-> TRUE,  pop |-> 100, hasEnv |-> FALSE, temp |-> 0,  rain |-> 0,
       lulc |-> <<"Agricultural">>],
      [hasPop |-> TRUE,  pop |-> 100, hasEnv |-> TRUE,  temp |-> 38, rain |-> 0,
       lulc |-> <<"Forested">>],
      [hasPop |-> TRUE,  pop |-> 0,   hasEnv |-> TRUE,  temp |-> 26, rain |-> 200,
       lulc |-> <<"Agricultural">>],
      [hasPop |-> TRUE,  pop |-> 50,  hasEnv |-> TRUE,  temp |-> 29, rain |-> 100,
       lulc |-> <<>>] }

\* What the files hold for a state that the boundary shapefile does not name.
OtherProfile ==
    [hasPop |-> TRUE, pop |-> 300, hasEnv |-> TRUE, temp |-> 26, rain |-> 400,
     lulc |-> <<"Urban">>]

\* The boundary shapefiles: each state once, in any order.
Boundaries ==
    { b \in UNION { [1..k -> StateNames] : k \in 1..Cardinality(StateNames) } :
        \A i, j \in DOMAIN b : i # j => b[i] # b[j] }

\* nigeria_states.shp
BoundaryFile(b) ==
    [i \in 1..Len(b) |-> [State |-> b[i], geometry |-> Geometry(b[i])]]

\* The concatenation of a list of lists of rows.
RECURSIVE Flatten(_)
Flatten(ss) == IF ss = <<>> THEN <<>> ELSE Head(ss) \o Flatten(Tail(ss))

\* The rows of a file, one list of rows per state, in the file's order.
FileRows(rowsOf(_)) == Flatten([i \in 1..Len(FileOrder) |-> rowsOf(FileOrder[i])])

\* nigeria_population.csv
PopulationFile(data) ==
    LET rowsOf(s) ==
            IF data[s].hasPop
            THEN << [State |-> s, Population |-> FromInt(data[s].pop)] >>
            ELSE <<>>
    IN  FileRows(rowsOf)

\* nigeria_environment.csv
EnvironmentFile(data) ==
    LET rowsOf(s) ==
            IF data[s].hasEnv
            THEN << [State |-> s, Avg_Temperature |-> FromInt(data[s].temp),
                     Avg_Rainfall |-> FromInt(data[s].rain)] >>
            ELSE <<>>
    IN  FileRows(rowsOf)

\* nigeria_lulc.shp
LulcFile(data) ==
    LET rowsOf(s) ==
            [j \in 1..Len(data[s].lulc) |->
                [State |-> s, LULC_Type |-> data[s].lulc[j]]]
    IN  FileRows(rowsOf)

\* The states of a boundary list.
Range(f) == { f[i] : i \in DOMAIN f }

\* The data sets over a boundary list: any profile for each of its states.
DataSets(b) ==
    { [s \in StateNames |-> IF s \in Range(b) THEN a[s] ELSE OtherProfile] :
        a \in [Range(b) -> Profiles] }

\* Before a cell has assigned it, a variable holds nothing.
Unset == [unset |-> TRUE]

\* The national incidence figures a caller supplies; the notebook's own is
\* 500000.
Incidences == {0, 1000, 500000}

-----------------------------------------------------------------------------
(* Step 2, the merges.                                                     *)

\* A row of NaN cells for the columns cols.
NullRow(cols) == [c \in cols |-> NaN]

\* The columns cols of a row.
Project(row, cols) == [c \in cols |-> row[c]]

\* The merge with how="inner": a left row without a right row is dropped.
MergeLeft_Inner(left, right, cols) ==
    LET joined(l) ==
            LET m == SelectSeq(right, LAMBDA r : r.State = l.State)
            IN  [j \in 1..Len(m) |-> Project(m[j], cols) @@ l]
    IN  Flatten([i \in 1..Len(left) |-> joined(left[i])])

\* left.merge(right, on="State", how="left"), where cols are the columns of
\* right other than State: each left row, in the order of left, once per
\* right row of its state (in the order of right), or once with NaN cells
\* when right has no row of its state.
MergeLeft(left, right, cols) ==
    LET joined(l) ==
            LET m == SelectSeq(right, LAMBDA r : r.State = l.State)
            IN  IF m = <<>> THEN << NullRow(cols) @@ l >>
                ELSE [j \in 1..Len(m) |-> Project(m[j], cols) @@ l]
    IN  Flatten([i \in 1..Len(left) |-> joined(left[i])])

-----------------------------------------------------------------------------
(* Step 3, the LULC weights.                                               *)

\* lulc_weight_mapping
lulc_weight_mapping ==
    [t \in {"Urban", "Agricultural", "Forested", "Water"} |->
        CASE t = "Urban" -> Frac(15, 10)
          [] t = "Agricultural" -> Frac(13, 10)
          [] t = "Forested" -> Frac(10, 10)
          [] t = "Water" -> Frac(5, 10)]

\* Series.map(lulc_weight_mapping) on one cell: NaN for a key the mapping
\* does not hold.
MapWeight(t) ==
    IF t \in DOMAIN lulc_weight_mapping THEN lulc_weight_mapping[t] ELSE NaN

\* Series.fillna(v) on one cell.
FillNa(x, v) == IF IsNaN(x) THEN v ELSE x

-----------------------------------------------------------------------------
(* Step 4, the environmental risk.                                         *)

optimal_temp == 26

temp_range == 6

\* Temp_Score without the clip.
TempScore_Unclipped(T) ==
    Sub(One, Div(AbsV(Sub(T, FromInt(optimal_temp))), FromInt(temp_range)))

\* Temp_Score of one cell: 1 - abs(T - optimal_temp) / temp_range, clipped
\* below at 0.
TempScore(T) ==
    ClipLower(Sub(One, Div(AbsV(Sub(T, FromInt(optimal_temp))), FromInt(temp_range))),
              Zero)

\* Rain_Score without the normalisation by the maximum.
RainScore_Unnormalised(R, mx) == R

\* Rain_Score of one cell.
RainScore(R, mx) == Div(R, mx)

\* Env_Risk without the rainfall factor.
EnvRisk_NoRain(w, t, r) == Mul(w, t)

\* Env_Risk of one row.
EnvRisk(w, t, r) == Mul(Mul(w, t), r)

\* A row with its Temp_Score, Rain_Score and Env_Risk, where mx is
\* max_rainfall.
ScoredRow(r, mx) ==
    LET t == TempScore(r.Avg_Temperature)
        s == RainScore(r.Avg_Rainfall, mx)
    IN  WithCell(WithCell(WithCell(r, "Temp_Score", t), "Rain_Score", s),
                 "Env_Risk", EnvRisk(r.LULC_Weight, t, s))

-----------------------------------------------------------------------------
(* Step 5, the allocation.                                                 *)

\* State_Weight of one row.
StateWeight(p, e) == Mul(p, e)

\* Allocated_Cases without the division by total_weight.
AllocatedCases_Unnormalised(w, total, N) == Mul(w, N)

\* Allocated_Cases of one row.
AllocatedCases(w, total, N) == Mul(Div(w, total), N)

\* A row with its State_Weight and Allocated_Cases.
AllocatedRow(r, total, N) ==
    LET w == StateWeight(r.Population, r.Env_Risk)
    IN  WithCell(WithCell(r, "State_Weight", w),
                 "Allocated_Cases", AllocatedCases(w, total, N))

-----------------------------------------------------------------------------
(* The dashboard (src/unnamed/part_000): a Dash application over the table *)
(* incidence_data of a database.  A table and a query result are sequences *)
(* of rows, a measured cell is an exact rational as above, and a value     *)
(* that may be None is None or Some(v).                                    *)

\* The largest number of rows the table incidence_data holds.
MaxRows == 2

None == [none |-> TRUE]

Some(v) == [value |-> v]

\* The values of the options of the indicator dropdown.
IndicatorOptions ==
    {"mortality_rate_adjusted", "incidence_rate_adjusted",
     "infection_prevalence_adjusted", "effective_treatment_adjusted"}

\* The years and the states of the rows; the states are listed in the
\* order ORDER BY state sorts them.
Years == {2019, 2020}

StateCollation == <<"Kano", "Lagos">>

\* A row of incidence_data.
IncidenceRow(state, year, date, rainfall, incidence, mortality, prevalence, treatment) ==
    [c \in {"state", "year", "date", "rainfall(mm)"} \cup IndicatorOptions |->
        CASE c = "state" -> state
          [] c = "year" -> year
          [] c = "date" -> date
          [] c = "rainfall(mm)" -> FromInt(rainfall)
          [] c = "incidence_rate_adjusted" -> FromInt(incidence)
          [] c = "mortality_rate_adjusted" -> FromInt(mortality)
          [] c = "infection_prevalence_adjusted" -> FromInt(prevalence)
          [] c = "effective_treatment_adjusted" -> FromInt(treatment)]

\* The rows a table is made of: two states and two years, one state in both
\* years, with measurements whose sums and means differ.
IncidenceRows ==
    { IncidenceRow("Kano", 2019, "2019-06", 180, 120, 3, 25, 60),
      IncidenceRow("Lagos", 2019, "2019-09", 310, 95, 4, 35, 70),
      IncidenceRow("Lagos", 2020, "2020-06", 290, 45, 2, 10, 90) }

\* The tables of the database, in the order the database returns the rows.
Tables == UNION { [1..n -> IncidenceRows] : n \in 0..MaxRows }

\* The values a callback can be invoked with: the dropdown's value is None
\* until a value is chosen and after it is cleared.
YearValues == {None} \cup { Some(y) : y \in Years }

\* A value for the state filter that is no state: text that closes a quoted
\* SQL literal and goes on with a statement of its own.  The callback's
\* endpoint takes whatever value a client sends.
Injection == "'; DELETE FROM incidence_data; --"

StateValues ==
    {None, Some(Injection)}
        \cup { Some(StateCollation[i]) : i \in 1..Len(StateCollation) }

IndicatorValues == {None} \cup { Some(i) : i \in IndicatorOptions }

\* The components as app.layout builds them: year and state dropdowns that
\* offer no option, cards without children, graphs without a figure, a map
\* layer with data={}, and no callback invoked yet.
EmptyDict == [k \in {} |-> k]

Layout ==
    /\ year_options = <<>>
    /\ state_options = <<>>
    /\ selected_year = Unset
    /\ selected_indicator = Unset
    /\ selected_state = Unset
    /\ outcome = "not invoked"
    /\ choropleth = EmptyDict
    /\ trend = Unset
    /\ bar_chart = Unset
    /\ correlation = Unset
    /\ kpi1 = Unset
    /\ kpi2 = Unset
    /\ kpi3 = Unset

\* ORDER BY year of a set of years.
RECURSIVE OrderByYear(_)
OrderByYear(S) ==
    IF S = {} THEN <<>>
    ELSE LET least == CHOOSE y \in S : \A z \in S : y <= z
         IN  <<least>> \o OrderByYear(S \ {least})

\* The place of a state in the order ORDER BY state sorts by.
Rank(s) == CHOOSE i \in 1..Len(StateCollation) : StateCollation[i] = s

\* ORDER BY state of a set of states.
RECURSIVE OrderByState(_)
OrderByState(S) ==
    IF S = {} THEN <<>>
    ELSE LET least == CHOOSE s \in S : \A t \in S : Rank(s) <= Rank(t)
         IN  <<least>> \o OrderByState(S \ {least})

\* The values of a column in the order of the rows, each at its first place.
RECURSIVE FirstOccurrences(_)
FirstOccurrences(s) ==
    IF s = <<>> THEN <<>>
    ELSE LET rest == FirstOccurrences(SubSeq(s, 1, Len(s) - 1))
             last == s[Len(s)]
         IN  IF \E i \in 1..Len(rest) : rest[i] = last THEN rest
             ELSE Append(rest, last)

\* SELECT DISTINCT year FROM incidence_data, without the ORDER BY.
years_query_Unordered(table) == FirstOccurrences(Column(table, "year"))

\* SELECT DISTINCT year FROM incidence_data ORDER BY year
years_query(table) ==
    OrderByYear({ table[i]["year"] : i \in 1..Len(table) })

\* SELECT DISTINCT state FROM incidence_data ORDER BY state
states_query(table) ==
    OrderByState({ table[i]["state"] : i \in 1..Len(table) })

\* [{"label": v, "value": v} for v in values]
OptionList(values) ==
    [i \in 1..Len(values) |-> [label |-> values[i], value |-> values[i]]]

\* if selected_year: , if selected_state: -- None, 0 and "" are false.
TruthyYear(v) == v # None /\ v.value # 0

TruthyState(v) == v # None /\ v.value # ""

\* The statements of update_filters, as the text given to text().
years_query_text == <<"SELECT DISTINCT year FROM incidence_data ORDER BY year">>

states_query_text == <<"SELECT DISTINCT state FROM incidence_data ORDER BY state">>

\* params: the values bound to the placeholders of the query.
params(year, state) ==
    [p \in (IF TruthyYear(year) THEN {"year"} ELSE {})
              \cup (IF TruthyState(state) THEN {"state"} ELSE {}) |->
        IF p = "year" THEN year.value ELSE state.value]

\* The query text with the year as a placeholder, whatever the selected
\* state.
query_YearOnly(year, state) ==
    <<"SELECT * FROM incidence_data WHERE 1=1">>
        \o (IF TruthyYear(year) THEN <<" AND year = :year">> ELSE <<>>)

\* The query text with the selected state written into it as a quoted
\* literal instead of the placeholder.
query_Interpolated(year, state) ==
    <<"SELECT * FROM incidence_data WHERE 1=1">>
        \o (IF TruthyYear(year) THEN <<" AND year = :year">> ELSE <<>>)
        \o (IF TruthyState(state) THEN <<" AND state = '", state.value, "'">>
            ELSE <<>>)

\* query: the text as the += statements put it together, piece by piece,
\* with a placeholder for a selected year and for a selected state.
query(year, state) ==
    <<"SELECT * FROM incidence_data WHERE 1=1">>
        \o (IF TruthyYear(year) THEN <<" AND year = :year">> ELSE <<>>)
        \o (IF TruthyState(state) THEN <<" AND state = :state">> ELSE <<>>)

\* The text a quoted literal stands for: what precedes its closing quote.
Literal(written) == IF written = Injection THEN "" ELSE written

\* The statements the database reads in a text: the SELECT, and after it
\* whatever statement a piece written into a quoted literal goes on with.
\* A bound value is never read as text.
StatementsOf(statement) ==
    <<"SELECT">>
        \o (IF \E i \in 1..Len(statement) - 1 :
                  statement[i] = " AND state = '" /\ statement[i + 1] = Injection
            THEN <<"DELETE">> ELSE <<>>)

\* connection.execute(text(statement), bound): the table afterwards.  A
\* SELECT leaves it as it is, DELETE FROM incidence_data leaves no row.
execute(table, statement, bound) ==
    IF \E i \in 1..Len(StatementsOf(statement)) :
           StatementsOf(statement)[i] = "DELETE"
    THEN <<>> ELSE table

\* result.fetchall() of the SELECT * text: the rows that meet every
\* condition the text holds, in the table's order.
fetchall(table, statement, bound) ==
    SelectSeq(table, LAMBDA row :
        \A i \in 1..Len(statement) :
            /\ statement[i] = " AND year = :year" => row["year"] = bound["year"]
            /\ statement[i] = " AND state = :state" => row["state"] = bound["state"]
            /\ statement[i] = " AND state = '" =>
                   row["state"] = Literal(statement[i + 1]))

\* selected_indicator.replace('_', ' ').title()
Title(indicator) ==
    CASE indicator = "mortality_rate_adjusted" -> "Mortality Rate Adjusted"
      [] indicator = "incidence_rate_adjusted" -> "Incidence Rate Adjusted"
      [] indicator = "infection_prevalence_adjusted" -> "Infection Prevalence Adjusted"
      [] indicator = "effective_treatment_adjusted" -> "Effective Treatment Adjusted"

\* The feature of one row: the popup is the formatted string, kept as its
\* parts.
Feature(row, indicator) ==
    [type |-> "Feature",
     properties |->
        [state |-> row["state"],
         popup |-> <<"State: ", row["state"], "<br>", Title(indicator), ": ",
                     row[indicator]>>],
     geometry |-> EmptyDict]

\* The feature collection of the filtered rows.
geojson_data(filtered_data, indicator) ==
    [type |-> "FeatureCollection",
     features |-> [i \in 1..Len(filtered_data) |->
                      Feature(filtered_data[i], indicator.value)]]

\* px.line, px.bar and px.scatter: the figure is the points it draws, one
\* for each row, of the columns x and y and coloured by state; for y=None
\* the frame's index is drawn instead.
Figure(kind, filtered_data, x, y) ==
    [kind |-> kind,
     points |-> [i \in 1..Len(filtered_data) |->
                   [x |-> filtered_data[i][x],
                    y |-> IF y = None THEN FromInt(i - 1)
                          ELSE filtered_data[i][y.value],
                    color |-> filtered_data[i]["state"]]]]

\* Series.mean(): NaN cells are skipped, NaN when no cell is left.
SeriesMean(s) ==
    Div(SeriesSum(s), FromInt(Len(SelectSeq(s, LAMBDA x : ~IsNaN(x)))))

-----------------------------------------------------------------------------
(* The cells as actions.                                                   *)

Init ==
    /\ pc = "start"
    /\ states_gdf = <<>>
    /\ pop_df = <<>>
    /\ env_df = <<>>
    /\ lulc_gdf = <<>>
    /\ max_rainfall = Unset
    /\ national_malaria_incidence = Unset
    /\ total_weight = Unset
    /\ out_shp = <<>>
    /\ out_csv = <<>>
    /\ incidence_data = <<>>
    /\ Layout

\* Step 1: the four files are read.
DataImport ==
    /\ pc = "start"
    /\ \E b \in Boundaries : \E data \in DataSets(b) :
          /\ states_gdf' = BoundaryFile(b)
          /\ pop_df' = PopulationFile(data)
          /\ env_df' = EnvironmentFile(data)
          /\ lulc_gdf' = LulcFile(data)
    /\ pc' = "imported"
    /\ UNCHANGED <<max_rainfall, national_malaria_incidence, total_weight,
                   out_shp, out_csv>>
    /\ UNCHANGED dashboard

\* Step 2: population and environment are merged onto the boundaries.
DataPreparation ==
    /\ pc = "imported"
    /\ states_gdf' =
          MergeLeft(MergeLeft(states_gdf, pop_df, {"Population"}),
                    env_df, {"Avg_Temperature", "Avg_Rainfall"})
    /\ pc' = "prepared"
    /\ UNCHANGED <<pop_df, env_df, lulc_gdf, max_rainfall,
                   national_malaria_incidence, total_weight, out_shp, out_csv>>
    /\ UNCHANGED dashboard

\* states_gdf["LULC_Weight"].fillna(1.0, inplace=True) fills the Series
\* that the selection returns.  The frame sees it where that Series is a
\* view of the frame's column (pandas before 3.0) and does not where it is
\* a copy (copy-on-write, the only mode from pandas 3.0 on); the notebook
\* pins no version.
ChainedInplaceOutcomes == {"view", "copy"}

\* Step 3: the LULC records get their weight, which is merged onto the
\* states and defaulted where missing.
LulcWeighting ==
    /\ pc = "prepared"
    /\ lulc_gdf' = MapRows(lulc_gdf, LAMBDA r :
                        WithCell(r, "LULC_Weight", MapWeight(r.LULC_Type)))
    /\ \E selection \in ChainedInplaceOutcomes :
          states_gdf' =
            IF selection = "view"
            THEN MapRows(MergeLeft(states_gdf, lulc_gdf', {"LULC_Weight"}), LAMBDA r :
                     WithCell(r, "LULC_Weight", FillNa(r.LULC_Weight, One)))
            ELSE MergeLeft(states_gdf, lulc_gdf', {"LULC_Weight"})
    /\ pc' = "weighted"
    /\ UNCHANGED <<pop_df, env_df, max_rainfall, national_malaria_incidence,
                   total_weight, out_shp, out_csv>>
    /\ UNCHANGED dashboard

\* Step 4: temperature score, rainfall score and their product with the
\* LULC weight.
EnvironmentalRisk ==
    /\ pc = "weighted"
    /\ max_rainfall' = SeriesMax(Column(states_gdf, "Avg_Rainfall"))
    /\ states_gdf' = MapRows(states_gdf, LAMBDA r : ScoredRow(r, max_rainfall'))
    /\ pc' = "scored"
    /\ UNCHANGED <<pop_df, env_df, lulc_gdf, national_malaria_incidence,
                   total_weight, out_shp, out_csv>>
    /\ UNCHANGED dashboard

\* Step 5: the national incidence is allocated in proportion to
\* population times risk.
Allocation ==
    /\ pc = "scored"
    /\ \E N \in Incidences : national_malaria_incidence' = FromInt(N)
    /\ total_weight' =
          SeriesSum(MapRows(states_gdf, LAMBDA r : StateWeight(r.Population, r.Env_Risk)))
    /\ states_gdf' = MapRows(states_gdf, LAMBDA r :
                         AllocatedRow(r, total_weight', national_malaria_incidence'))
    /\ pc' = "allocated"
    /\ UNCHANGED <<pop_df, env_df, lulc_gdf, max_rainfall, out_shp, out_csv>>
    /\ UNCHANGED dashboard

\* The columns of a row other than the geometry.
DropGeometry(row) == [c \in DOMAIN row \ {"geometry"} |-> row[c]]

\* The name of a column in the attribute table of an ESRI shapefile, which
\* holds the first 10 characters of a name: the frame's columns, each with
\* the name it is written under.
ShapefileFieldName(c) ==
    CASE c = "Avg_Temperature" -> "Avg_Temper"
      [] c = "Avg_Rainfall" -> "Avg_Rainfa"
      [] c = "LULC_Weight" -> "LULC_Weigh"
      [] c = "State_Weight" -> "State_Weig"
      [] c = "Allocated_Cases" -> "Allocated_"
      [] OTHER -> c

\* A row as the shapefile holds it: the cells under the shortened names.
ShapefileRow(row) ==
    [f \in { ShapefileFieldName(c) : c \in DOMAIN row } |->
        row[CHOOSE c \in DOMAIN row : ShapefileFieldName(c) = f]]

\* Step 6: the frame is written as a shapefile and, without the geometry,
\* as a CSV file.
Export ==
    /\ pc = "allocated"
    /\ out_shp' = [i \in 1..Len(states_gdf) |-> ShapefileRow(states_gdf[i])]
    /\ out_csv' = [i \in 1..Len(states_gdf) |-> DropGeometry(states_gdf[i])]
    /\ pc' = "exported"
    /\ UNCHANGED <<states_gdf, pop_df, env_df, lulc_gdf, max_rainfall,
                   national_malaria_incidence, total_weight>>
    /\ UNCHANGED dashboard

Next ==
    \/ DataImport
    \/ DataPreparation
    \/ LulcWeighting
    \/ EnvironmentalRisk
    \/ Allocation
    \/ Export

Spec == Init /\ [][Next]_vars

-----------------------------------------------------------------------------
(* The dashboard's callbacks as actions.  Dash invokes a callback with the  *)
(* current values of its inputs whenever one of them changes; the page's    *)
(* user chooses and clears the values in any order.                         *)

\* The application is started on a database whose table is any of Tables;
\* the notebook is not run.
InitDash ==
    /\ pc = "start"
    /\ states_gdf = <<>>
    /\ pop_df = <<>>
    /\ env_df = <<>>
    /\ lulc_gdf = <<>>
    /\ max_rainfall = Unset
    /\ national_malaria_incidence = Unset
    /\ total_weight = Unset
    /\ out_shp = <<>>
    /\ out_csv = <<>>
    /\ incidence_data \in Tables
    /\ Layout

\* update_filters(selected_indicator): both option lists are queried and
\* returned; the body never reads its argument.
update_filters(indicator) ==
    /\ year_options' = OptionList(years_query(incidence_data))
    /\ state_options' = OptionList(states_query(incidence_data))
    /\ incidence_data' =
          execute(execute(incidence_data, years_query_text, <<>>),
                  states_query_text, <<>>)
    /\ UNCHANGED <<selected_year, selected_indicator, selected_state, outcome,
                   choropleth, trend, bar_chart, correlation, kpi1, kpi2, kpi3>>
    /\ UNCHANGED notebook

UpdateFilters == \E indicator \in IndicatorValues : update_filters(indicator)

\* update_dashboard(selected_year, selected_indicator, selected_state): the
\* rows are queried; the popup of the first feature raises AttributeError
\* for the indicator None, and Dash then leaves every output as it was;
\* otherwise the seven outputs are returned.
update_dashboard(year, indicator, state) ==
    LET filtered_data ==
            fetchall(incidence_data, query(year, state), params(year, state))
    IN  /\ selected_year' = year
        /\ selected_indicator' = indicator
        /\ selected_state' = state
        /\ incidence_data' =
              execute(incidence_data, query(year, state), params(year, state))
        /\ IF indicator = None /\ filtered_data # <<>>
           THEN /\ outcome' = "AttributeError"
                /\ UNCHANGED <<choropleth, trend, bar_chart, correlation,
                               kpi1, kpi2, kpi3>>
           ELSE /\ outcome' = "returned"
                /\ choropleth' = geojson_data(filtered_data, indicator)
                /\ trend' = Figure("line", filtered_data, "date", indicator)
                /\ bar_chart' = Figure("bar", filtered_data, "state", indicator)
                /\ correlation' =
                      Figure("scatter", filtered_data, "rainfall(mm)", indicator)
                /\ kpi1' = SeriesSum(Column(filtered_data, "incidence_rate_adjusted"))
                /\ kpi2' = SeriesSum(Column(filtered_data, "mortality_rate_adjusted"))
                /\ kpi3' = SeriesMean(Column(filtered_data, "effective_treatment_adjusted"))
        /\ UNCHANGED <<year_options, state_options>>
        /\ UNCHANGED notebook

UpdateDashboard ==
    \E year \in YearValues : \E indicator \in IndicatorValues :
        \E state \in StateValues : update_dashboard(year, indicator, state)

NextDash ==
    \/ UpdateFilters
    \/ UpdateDashboard

SpecDash == InitDash /\ [][NextDash]_vars

-----------------------------------------------------------------------------
(* What the properties read.                                                 *)

\* The cells whose columns each stage has written.
Weighted == pc \in {"weighted", "scored", "allocated", "exported"}

Scored == pc \in {"scored", "allocated", "exported"}

Allocated == pc \in {"allocated", "exported"}

Rows == 1..Len(states_gdf)

\* The states of a frame.
StatesOf(df) == { df[i].State : i \in 1..Len(df) }

\* The rows of a frame for state s.
RowsOf(df, s) == SelectSeq(df, LAMBDA r : r.State = s)

\* The fields the stages derive.
DerivedFields ==
    {"LULC_Weight", "Temp_Score", "Rain_Score", "Env_Risk", "State_Weight",
     "Allocated_Cases"}

-----------------------------------------------------------------------------
(* C1 *)

\* C1: whenever total_weight, the sum of population x env_risk over all
\* states, is > 0, the Allocated_Cases of all states sum to the national
\* incidence, in the frame and in the exported file; and without a missing
\* weight every addend is a number.
C1_AllocationSumsToIncidence ==
    (Allocated /\ Lt(Zero, total_weight)) =>
        /\ SeriesSum(Column(states_gdf, "Allocated_Cases")) = national_malaria_incidence
        /\ pc = "exported" =>
              SeriesSum(Column(out_csv, "Allocated_Cases")) = national_malaria_incidence
        /\ (\A i \in Rows : IsNum(states_gdf[i].State_Weight)) =>
              (\A i \in Rows : IsNum(states_gdf[i].Allocated_Cases))

\* Two states with different positive shares of a positive incidence.
C1_Witness ==
    /\ pc = "exported"
    /\ Lt(Zero, total_weight)
    /\ national_malaria_incidence = FromInt(1000)
    /\ \E i, j \in Rows :
          /\ Lt(Zero, states_gdf[i].Allocated_Cases)
          /\ Lt(states_gdf[i].Allocated_Cases, states_gdf[j].Allocated_Cases)

-----------------------------------------------------------------------------
(* C2 *)

\* C2: when all state weights are 0, so that total_weight is 0, the
\* Allocator halts the run: the allocation does not complete, and no
\* Allocated_Cases that is NaN or infinite is produced or exported.
C2_ZeroTotalWeightHalts ==
    ~ /\ Allocated
      /\ total_weight = Zero
      /\ \A i \in Rows : states_gdf[i].State_Weight = Zero

-----------------------------------------------------------------------------
(* C3 *)

\* C3: when the maximum rainfall is 0 the risk scorer halts the run: no
\* Rain_Score is computed and no later stage runs.
C3_ZeroMaxRainfallHalts ==
    ~(Scored /\ max_rainfall = Zero)

-----------------------------------------------------------------------------
(* C4 *)

\* C4: a run that ends in an export has every derived field of every state
\* record populated with a defined number.
C4_ExportFullyPopulated ==
    pc = "exported" =>
        \A i \in 1..Len(out_csv) : \A f \in DerivedFields : IsNum(out_csv[i][f])

-----------------------------------------------------------------------------
(* C5 *)

\* max(0, 1 - |T - 26| / 6) for a whole number of degrees T.
ExpectedTempScore(T) ==
    IF Abs(T - 26) >= 6 THEN Zero ELSE Frac(6 - Abs(T - 26), 6)

\* C5: the Temp_Score of every state with a temperature T is
\* max(0, 1 - |T - 26| / 6) and lies in [0, 1]; it is 1 at 26 degrees, 0 at
\* 32 degrees and 0, not negative, at 38 degrees.
C5_TempScoreBounded ==
    Scored =>
        \A i \in Rows :
            LET T == states_gdf[i].Avg_Temperature
                score == states_gdf[i].Temp_Score
            IN  IsNum(T) =>
                  /\ Le(Zero, score) /\ Le(score, One)
                  /\ T.d = 1 => score = ExpectedTempScore(T.n)
                  /\ T = FromInt(26) => score = One
                  /\ T = FromInt(32) => score = Zero
                  /\ T = FromInt(38) => score = Zero

\* A run with a state at 26 degrees, one at 38 degrees and one in between.
C5_Witness ==
    /\ Scored
    /\ \E i, j, k \in Rows :
          /\ states_gdf[i].Avg_Temperature = FromInt(26)
          /\ states_gdf[j].Avg_Temperature = FromInt(38)
          /\ states_gdf[j].Temp_Score = Zero
          /\ states_gdf[k].Temp_Score = [n |-> 1, d |-> 2]

-----------------------------------------------------------------------------
(* C6 *)

\* C6: when the maximum rainfall R_max of the run is > 0, the Rain_Score of
\* every state with a rainfall R lies in [0, R / R_max], and it is 1 for a
\* state whose rainfall is R_max; R_max is the largest Avg_Rainfall of the
\* run.
C6_RainScoreBounded ==
    (Scored /\ Lt(Zero, max_rainfall)) =>
        /\ \E i \in Rows : states_gdf[i].Avg_Rainfall = max_rainfall
        /\ \A i \in Rows :
              LET R == states_gdf[i].Avg_Rainfall
                  score == states_gdf[i].Rain_Score
              IN  IsNum(R) =>
                    /\ Le(R, max_rainfall)
                    /\ Le(Zero, score)
                    /\ Le(score, Frac(R.n * max_rainfall.d, R.d * max_rainfall.n))
                    /\ R = max_rainfall => score = One

\* A run with a state at the maximum rainfall and one strictly between 0
\* and the maximum.
C6_Witness ==
    /\ Scored
    /\ Lt(Zero, max_rainfall)
    /\ \E i, j \in Rows :
          /\ states_gdf[i].Rain_Score = One
          /\ Lt(Zero, states_gdf[j].Rain_Score)
          /\ Lt(states_gdf[j].Rain_Score, One)

-----------------------------------------------------------------------------
(* C7 *)

\* The weight table of the LULC Weighting stage.
TableWeight(t) ==
    CASE t = "Urban" -> [n |-> 3, d |-> 2]
      [] t = "Agricultural" -> [n |-> 13, d |-> 10]
      [] t = "Forested" -> [n |-> 1, d |-> 1]
      [] t = "Water" -> [n |-> 1, d |-> 2]
      [] OTHER -> NaN

\* C7: after the LULC Weighting stage every state record has a populated
\* LULC_Weight; a state with a single LULC record has the table weight of
\* its category, or 1.0 when the category is not in the table, and a state
\* with no LULC record has 1.0.
C7_LulcWeightPopulated ==
    Weighted =>
        \A i \in Rows :
            LET w == states_gdf[i].LULC_Weight
                recs == RowsOf(lulc_gdf, states_gdf[i].State)
            IN  /\ IsNum(w)
                /\ Len(recs) = 0 => w = One
                /\ Len(recs) = 1 =>
                      w = (IF IsNaN(TableWeight(recs[1].LULC_Type)) THEN One
                           ELSE TableWeight(recs[1].LULC_Type))

-----------------------------------------------------------------------------
(* C8 *)

\* The average of the table weights of a list of LULC records, each record
\* an equal share of the state.
RECURSIVE SumTableWeights(_)
SumTableWeights(recs) ==
    IF recs = <<>> THEN Zero
    ELSE Add(TableWeight(Head(recs).LULC_Type), SumTableWeights(Tail(recs)))

AverageTableWeight(recs) == Div(SumTableWeights(recs), FromInt(Len(recs)))

\* C8: after the LULC Weighting stage a state with several LULC records has
\* exactly one record, whose weight is the proportion-weighted average of
\* the weights of its categories, so that the stage keeps the number of
\* state records.
C8_OneAveragedWeightPerState ==
    Weighted =>
        \A s \in StatesOf(states_gdf) :
            /\ Len(RowsOf(states_gdf, s)) = 1
            /\ Len(RowsOf(lulc_gdf, s)) > 1 =>
                  RowsOf(states_gdf, s)[1].LULC_Weight =
                      AverageTableWeight(RowsOf(lulc_gdf, s))

-----------------------------------------------------------------------------
(* C9 *)

\* The cell of column c that table df holds for state s, NaN when it holds
\* no row of s.
Lookup(df, s, c) ==
    IF RowsOf(df, s) = <<>> THEN NaN ELSE RowsOf(df, s)[1][c]

\* C9: the Merger keeps the boundary collection's states, their order and
\* their geometry, and gives each the population and the environment of
\* its row in the tables, or null fields when a table has no such row.
C9_MergerIsLeftJoin ==
    [][DataPreparation =>
         /\ Len(states_gdf') = Len(states_gdf)
         /\ \A i \in 1..Len(states_gdf) :
               /\ states_gdf'[i].State = states_gdf[i].State
               /\ states_gdf'[i].geometry = states_gdf[i].geometry
               /\ states_gdf'[i].Population =
                     Lookup(pop_df, states_gdf[i].State, "Population")
               /\ states_gdf'[i].Avg_Temperature =
                     Lookup(env_df, states_gdf[i].State, "Avg_Temperature")
               /\ states_gdf'[i].Avg_Rainfall =
                     Lookup(env_df, states_gdf[i].State, "Avg_Rainfall")]_vars

\* A merged collection that is not in the tables' order, with a state
\* without population row, a state without environment row, a state with
\* both, and a table row of a state that is not in the boundaries.
C9_Witness ==
    /\ pc = "prepared"
    /\ Len(states_gdf) = 2
    /\ states_gdf[1].State = "C"
    /\ states_gdf[2].State = "A"
    /\ IsNaN(states_gdf[1].Population)
    /\ IsNum(states_gdf[1].Avg_Rainfall)
    /\ IsNaN(states_gdf[2].Avg_Rainfall)
    /\ IsNum(states_gdf[2].Population)
    /\ "B" \in StatesOf(pop_df)

-----------------------------------------------------------------------------
(* C10 *)

\* The run is the end-to-end scenario: A(100, 26, 100, Forested),
\* B(200, 32, 50, Urban), C(50, 20, 200, Water), national incidence 1000.
EndToEndScenario ==
    /\ StatesOf(states_gdf) = {"A", "B", "C"}
    /\ pop_df = << [State |-> "A", Population |-> FromInt(100)],
                   [State |-> "B", Population |-> FromInt(200)],
                   [State |-> "C", Population |-> FromInt(50)] >>
    /\ env_df = << [State |-> "A", Avg_Temperature |-> FromInt(26),
                    Avg_Rainfall |-> FromInt(100)],
                   [State |-> "B", Avg_Temperature |-> FromInt(32),
                    Avg_Rainfall |-> FromInt(50)],
                   [State |-> "C", Avg_Temperature |-> FromInt(20),
                    Avg_Rainfall |-> FromInt(200)] >>
    /\ Column(lulc_gdf, "State") = <<"A", "B", "C">>
    /\ Column(lulc_gdf, "LULC_Type") = <<"Forested", "Urban", "Water">>
    /\ national_malaria_incidence = FromInt(1000)

\* C10: in the end-to-end scenario A has env_risk 0.5 and 1000 allocated
\* cases, B and C have env_risk 0 and 0 allocated cases, and the allocations
\* sum to 1000.
C10_EndToEnd ==
    (Allocated /\ EndToEndScenario) =>
        /\ Len(states_gdf) = 3
        /\ \A i \in Rows :
              /\ states_gdf[i].Env_Risk =
                    (IF states_gdf[i].State = "A" THEN [n |-> 1, d |-> 2] ELSE Zero)
              /\ states_gdf[i].Allocated_Cases =
                    (IF states_gdf[i].State = "A" THEN FromInt(1000) ELSE Zero)
        /\ SeriesSum(Column(states_gdf, "Allocated_Cases")) = FromInt(1000)

\* The end-to-end scenario, allocated and exported.
C10_Witness ==
    /\ pc = "exported"
    /\ EndToEndScenario
    /\ Len(out_csv) = 3

-----------------------------------------------------------------------------
(* C11 *)

\* The rows of incidence_data whose year is the selected year, when one is
\* selected, and whose state is the selected state, when one is selected.
SelectedRows ==
    { i \in 1..Len(incidence_data) :
        /\ selected_year # None => incidence_data[i]["year"] = selected_year.value
        /\ selected_state # None => incidence_data[i]["state"] = selected_state.value }

\* The sum of column c over the rows I of incidence_data.
RECURSIVE TotalOver(_, _)
TotalOver(I, c) ==
    IF I = {} THEN Zero
    ELSE LET i == CHOOSE j \in I : TRUE
         IN  Add(incidence_data[i][c], TotalOver(I \ {i}, c))

\* C11: whatever the selected indicator, the KPIs update_dashboard returns
\* are the sum of incidence_rate_adjusted, the sum of mortality_rate_adjusted
\* and the mean of effective_treatment_adjusted over exactly the rows of the
\* selected year and the selected state, an unselected filter restricting
\* nothing.
C11_KpisOverSelectedRows ==
    outcome = "returned" =>
        /\ kpi1 = TotalOver(SelectedRows, "incidence_rate_adjusted")
        /\ kpi2 = TotalOver(SelectedRows, "mortality_rate_adjusted")
        /\ kpi3 = Div(TotalOver(SelectedRows, "effective_treatment_adjusted"),
                      FromInt(Cardinality(SelectedRows)))

\* Both filters are selected, they select some rows of the table and not
\* others, and the indicator is not one of the KPI columns' defaults.
C11_Witness ==
    /\ outcome = "returned"
    /\ selected_year # None
    /\ selected_state # None
    /\ selected_indicator = Some("infection_prevalence_adjusted")
    /\ SelectedRows # {}
    /\ Cardinality(SelectedRows) < Len(incidence_data)
    /\ kpi1 = TotalOver(SelectedRows, "incidence_rate_adjusted")

-----------------------------------------------------------------------------
(* C12 *)

\* What an invocation of update_dashboard that returns computes from its
\* arguments and the table alone.
FreshOutputs(table, year, indicator, state) ==
    LET rows == SelectSeq(table, LAMBDA row :
                    /\ year # None => row["year"] = year.value
                    /\ state # None => row["state"] = state.value)
    IN  <<geojson_data(rows, indicator),
          Figure("line", rows, "date", indicator),
          Figure("bar", rows, "state", indicator),
          Figure("scatter", rows, "rainfall(mm)", indicator),
          SeriesSum(Column(rows, "incidence_rate_adjusted")),
          SeriesSum(Column(rows, "mortality_rate_adjusted")),
          SeriesMean(Column(rows, "effective_treatment_adjusted"))>>

\* The outputs do not depend on any earlier invocation: the option lists
\* are those of the table, and after an invocation of update_dashboard
\* that returned the seven outputs are those of its arguments and the table.
NoStateOfTheirOwn ==
    /\ year_options \in {<<>>, OptionList(years_query(incidence_data))}
    /\ state_options \in {<<>>, OptionList(states_query(incidence_data))}
    /\ outcome = "returned" =>
          <<choropleth, trend, bar_chart, correlation, kpi1, kpi2, kpi3>> =
              FreshOutputs(incidence_data, selected_year, selected_indicator,
                           selected_state)

\* C12: no invocation of update_filters or update_dashboard, in any order
\* and with any filter values -- a value written to pass as SQL included --
\* changes the table incidence_data, and what an invocation returns depends
\* on no earlier invocation.
C12_StoreIsReadOnly ==
    [][incidence_data' = incidence_data]_vars /\ []NoStateOfTheirOwn

\* update_dashboard has returned for a state filter that holds SQL text,
\* after update_filters, on a table that still holds its rows.
C12_Witness ==
    /\ incidence_data # <<>>
    /\ year_options # <<>>
    /\ outcome = "returned"
    /\ selected_state = Some(Injection)
    /\ selected_year # None
    /\ kpi1 = Zero

-----------------------------------------------------------------------------
(* C15 *)

\* The years and the states of the whole table.
YearsOfTable == { incidence_data[i]["year"] : i \in 1..Len(incidence_data) }

StatesOfTable == { incidence_data[i]["state"] : i \in 1..Len(incidence_data) }

\* C15: an invocation of update_filters, whatever indicator it is given
\* (None included), returns as year options the distinct years and as
\* state options the distinct states of the whole table, each once and in
\* ascending order; so two invocations on the same table return the same.
C15_FiltersIgnoreIndicator ==
    [][\A indicator \in IndicatorValues : update_filters(indicator) =>
          /\ Len(year_options') = Cardinality(YearsOfTable)
          /\ \A i \in 1..Len(year_options') :
                /\ year_options'[i].value \in YearsOfTable
                /\ year_options'[i].label = year_options'[i].value
          /\ \A i, j \in 1..Len(year_options') :
                i < j => year_options'[i].value < year_options'[j].value
          /\ Len(state_options') = Cardinality(StatesOfTable)
          /\ \A i \in 1..Len(state_options') :
                /\ state_options'[i].value \in StatesOfTable
                /\ state_options'[i].label = state_options'[i].value
          /\ \A i, j \in 1..Len(state_options') :
                i < j => Rank(state_options'[i].value) < Rank(state_options'[j].value)
      ]_vars

\* The options have been returned for a table that holds its years and its
\* states in descending order.
C15_Witness ==
    /\ Len(incidence_data) = 2
    /\ incidence_data[1]["year"] > incidence_data[2]["year"]
    /\ Rank(incidence_data[1]["state"]) > Rank(incidence_data[2]["state"])
    /\ Len(year_options) = 2
    /\ Len(state_options) = 2

-----------------------------------------------------------------------------
(* C13 *)

\* Frame after has the rows of frame before, in their order, each with its
\* State, its geometry and every other cell it had.
KeepsRecords(before, after) ==
    /\ Len(after) = Len(before)
    /\ \A i \in 1..Len(before) :
          \A c \in DOMAIN before[i] :
              c \in DOMAIN after[i] /\ after[i][c] = before[i][c]

\* The shapefile holds the rows of the frame, in their order, each cell as
\* it is, under the column's name as the file's format writes it.
WritesRecords(frame, file) ==
    /\ Len(file) = Len(frame)
    /\ \A i \in 1..Len(frame) :
          /\ Cardinality(DOMAIN file[i]) = Cardinality(DOMAIN frame[i])
          /\ \A c \in DOMAIN frame[i] :
                /\ ShapefileFieldName(c) \in DOMAIN file[i]
                /\ file[i][ShapefileFieldName(c)] = frame[i][c]

\* C13: each stage after the merger -- LULC weighting, risk scoring,
\* allocation -- leaves the set and order of the state records, their
\* geometry and every field an earlier stage wrote unchanged and only adds
\* fields; the export writes the frame's records and values as they are.
C13_LaterStagesOnlyAdd ==
    [][/\ (LulcWeighting \/ EnvironmentalRisk \/ Allocation) =>
             KeepsRecords(states_gdf, states_gdf')
       /\ Export =>
             /\ WritesRecords(states_gdf, out_shp')
             /\ KeepsRecords(out_csv', states_gdf)
             /\ Len(out_csv') = Len(states_gdf)
             /\ states_gdf' = states_gdf
      ]_vars

-----------------------------------------------------------------------------
(* C14 *)

\* The factors every population is multiplied by.
ScaleFactors == { FromInt(2), FromInt(10), Frac(1, 3) }

\* The State_Weight column of the frame with every population k times as
\* large.
ScaledWeights(k) ==
    [i \in Rows |->
        StateWeight(Mul(states_gdf[i].Population, k), states_gdf[i].Env_Risk)]

\* The allocation of row i with every population k times as large.
ScaledAllocation(k, i) ==
    AllocatedCases(ScaledWeights(k)[i], SeriesSum(ScaledWeights(k)),
                   national_malaria_incidence)

\* For a positive total weight, the allocation with every population
\* multiplied by k > 0 is the allocation the frame holds.
ScaleInvariant ==
    (Allocated /\ Lt(Zero, total_weight)) =>
        \A k \in ScaleFactors : \A i \in Rows :
            ScaledAllocation(k, i) = states_gdf[i].Allocated_Cases

\* For a positive total weight, a state whose Temp_Score is 0 or whose
\* rainfall is 0 is allocated 0 cases.
NoRiskNoCases ==
    (Allocated /\ Lt(Zero, total_weight)) =>
        \A i \in Rows :
            (states_gdf[i].Temp_Score = Zero \/ states_gdf[i].Avg_Rainfall = Zero)
                => states_gdf[i].Allocated_Cases = Zero

\* C14: for total_weight > 0 the allocation depends only on relative
\* weights -- multiplying every population by k > 0 changes no
\* Allocated_Cases -- and a state with Temp_Score 0 or rainfall 0 is
\* allocated 0 cases whatever its population.
C14_RelativeWeightsOnly == ScaleInvariant /\ NoRiskNoCases

====
